---- MODULE Spec2Model ----
(***************************************************************************)
(* Model of streamlit_chart_app.py: the weekly estimated-vs-actual hours   *)
(* script.  One run of the script is a sequence of steps over the two      *)
(* persisted files (cached_baseline.xlsx, actuals_tracker.csv); the helper *)
(* functions are operators over tables.                                    *)
(*                                                                         *)
(* Values (cells and column labels) are records tagged by k:               *)
(*   nan   a missing cell (NaN)                                            *)
(*   num   a number, v in tenths of an hour                                *)
(*   txt   a text, s its letters, pad = surrounding whitespace present     *)
(*   dtxt  a text of the shape dddd-dd-dd, ymd its three numbers           *)
(*   ts    a pandas Timestamp, ord its day number                          *)
(* Column labels of one table are pairwise distinct, as read_excel         *)
(* makes them.                                                             *)
(***************************************************************************)
EXTENDS Integers, Sequences, FiniteSets, TLC

\* ---------------------------------------------------------------- bounds
MaxRows == 3
MaxCols == 3

\* ---------------------------------------------------------------- values
NaN == [k |-> "nan"]
Num(n) == [k |-> "num", v |-> n]
Txt(w) == [k |-> "txt", pad |-> FALSE, s |-> w]
PadTxt(w) == [k |-> "txt", pad |-> TRUE, s |-> w]
DTxt(d) == [k |-> "dtxt", pad |-> FALSE, ymd |-> d]
PadDTxt(d) == [k |-> "dtxt", pad |-> TRUE, ymd |-> d]
Ts(d) == [k |-> "ts", ord |-> d]

\* str(x): NaN prints as "nan"; a number and a Timestamp print as texts that
\* are neither a word of the tables nor of the shape dddd-dd-dd.
Str(x) ==
  CASE x.k = "nan" -> Txt("nan")
    [] x.k = "num" -> [k |-> "numtxt", pad |-> FALSE, v |-> x.v]
    [] x.k = "ts" -> [k |-> "tstxt", pad |-> FALSE, ord |-> x.ord]
    [] OTHER -> x

\* s.strip()
Strip(x) == [x EXCEPT !.pad = FALSE]

LowerWord(w) ==
  CASE w = "Project Full Name" -> "project full name"
    [] w = "PROJECT FULL NAME" -> "project full name"
    [] w = "Total" -> "total"
    [] w = "TOTAL" -> "total"
    [] w = "Alpha" -> "alpha"
    [] w = "Beta" -> "beta"
    [] w = "Notes" -> "notes"
    [] w = "Unnamed: 0" -> "unnamed: 0"
    [] w = "Unnamed: 1" -> "unnamed: 1"
    [] w = "Unnamed: 2" -> "unnamed: 2"
    [] OTHER -> w

\* s.lower()
Lower(x) == IF x.k = "txt" THEN [x EXCEPT !.s = LowerWord(x.s)] ELSE x

normalize_colname(s) == Lower(Strip(Str(s)))

IsWord(x, w) == x.k = "txt" /\ ~x.pad /\ x.s = w

\* DATE_COL_PATTERN.match(s): ^\d{4}-\d{2}-\d{2}$ on the text as given.
DATE_COL_PATTERN(s) == s.k = "dtxt" /\ ~s.pad

\* pd.to_numeric(x, errors="coerce") on one cell: a number stays, anything
\* else becomes NaN.
ToNumeric(x) == IF x.k = "num" THEN x ELSE NaN

notna(x) == x.k # "nan"

\* ----------------------------------------------------------------- dates
\* Day numbers count from 2024-01-01 (pandas counts from 1970-01-01; only the
\* order and equality of day numbers are observable here).
IsLeap(y) == (y % 4 = 0 /\ y % 100 # 0) \/ y % 400 = 0

DaysInMonth(y, m) ==
  IF m = 2 THEN (IF IsLeap(y) THEN 29 ELSE 28)
  ELSE IF m \in {4, 6, 9, 11} THEN 30 ELSE 31

DaysInYear(y) == IF IsLeap(y) THEN 366 ELSE 365

ValidDate(d) ==
  /\ d[1] >= 2024
  /\ d[2] \in 1..12
  /\ d[3] >= 1 /\ d[3] <= DaysInMonth(d[1], d[2])

RECURSIVE DaysBeforeYear(_)
DaysBeforeYear(y) == IF y <= 2024 THEN 0 ELSE DaysBeforeYear(y - 1) + DaysInYear(y - 1)

RECURSIVE DaysBeforeMonth(_, _)
DaysBeforeMonth(y, m) == IF m <= 1 THEN 0 ELSE DaysBeforeMonth(y, m - 1) + DaysInMonth(y, m - 1)

\* The day number of a calendar date (the value a Timestamp holds).
Ordinal(d) == DaysBeforeYear(d[1]) + DaysBeforeMonth(d[1], d[2]) + d[3]

RECURSIVE DateFrom(_, _, _)
DateFrom(y, m, n) ==
  IF n <= DaysInMonth(y, m) THEN <<y, m, n>>
  ELSE IF m = 12 THEN DateFrom(y + 1, 1, n - DaysInMonth(y, m))
  ELSE DateFrom(y, m + 1, n - DaysInMonth(y, m))

\* Timestamp.strftime("%Y-%m-%d"), as three numbers.
DateOf(n) == DateFrom(2024, 1, n)

\* pd.to_datetime(str(x)) for a column label: [raised, ord].  A text of the
\* date shape parses when it is a calendar date, surrounding blanks ignored.
to_datetime(x) ==
  CASE x.k = "ts" -> [raised |-> FALSE, ord |-> x.ord]
    [] x.k = "dtxt" /\ ValidDate(x.ymd) -> [raised |-> FALSE, ord |-> Ordinal(x.ymd)]
    [] OTHER -> [raised |-> TRUE, ord |-> 0]

\* ---------------------------------------------------------------- tables
Range(s) == {s[i] : i \in 1..Len(s)}

\* The position of the first column carrying the label c.
ColIndex(df, c) == CHOOSE i \in 1..Len(df.cols) : df.cols[i] = c /\ \A j \in 1..(i - 1) : df.cols[j] # c

\* sorted(xs, key=...): stable insertion sort of a sequence of records by
\* their integer field key.
\* Elements are inserted from the right end of the sorted prefix, so equal
\* keys keep their input order.
RECURSIVE InsertLast(_, _)
InsertLast(x, s) ==
  IF Len(s) = 0 THEN <<x>>
  ELSE IF x.key >= s[Len(s)].key THEN s \o <<x>>
  ELSE InsertLast(x, SubSeq(s, 1, Len(s) - 1)) \o <<s[Len(s)]>>

RECURSIVE SortedByKey(_)
SortedByKey(s) ==
  IF Len(s) = 0 THEN s
  ELSE InsertLast(s[Len(s)], SortedByKey(SubSeq(s, 1, Len(s) - 1)))

\* --------------------------------------------------- detect_project_col
\* The first label whose normalised name is "project full name", if any.
HasProjectLabel(cols) == \E i \in 1..Len(cols) : IsWord(normalize_colname(cols[i]), "project full name")

FirstProjectLabel(cols) ==
  cols[CHOOSE i \in 1..Len(cols) :
         /\ IsWord(normalize_colname(cols[i]), "project full name")
         /\ \A j \in 1..(i - 1) : ~IsWord(normalize_colname(cols[j]), "project full name")]

\* df.columns = df.iloc[0]; df.drop(df.index[0]); df.reset_index(drop=True)
PromoteFirstRow(df) == [cols |-> df.rows[1], rows |-> Tail(df.rows)]

\* detect_project_col(df): [raised, col, df]; df is the table as the call
\* leaves it (the first row is promoted in place).  df.iloc[0] raises
\* IndexError on a table without rows.
detect_project_col(df) ==
  IF HasProjectLabel(df.cols)
    THEN [raised |-> FALSE, col |-> FirstProjectLabel(df.cols), df |-> df]
  ELSE IF Len(df.rows) = 0 \/ Len(df.cols) = 0
    THEN [raised |-> TRUE, col |-> NaN, df |-> df]
  ELSE IF HasProjectLabel(df.rows[1])
    THEN [raised |-> FALSE, col |-> FirstProjectLabel(df.rows[1]), df |-> PromoteFirstRow(df)]
  ELSE [raised |-> FALSE, col |-> df.cols[1], df |-> df]

\* ----------------------------------------------------- detect_week_cols
\* First loop: the labels whose stripped text matches DATE_COL_PATTERN.
PatternCols(cols) == SelectSeq(cols, LAMBDA c : DATE_COL_PATTERN(Strip(Str(c))))

\* Second loop: Timestamp labels not yet in week_cols are appended.
RECURSIVE AppendTimestamps(_, _)
AppendTimestamps(week_cols, cols) ==
  IF Len(cols) = 0 THEN week_cols
  ELSE IF Head(cols).k = "ts" /\ Head(cols) \notin Range(week_cols)
    THEN AppendTimestamps(Append(week_cols, Head(cols)), Tail(cols))
  ELSE AppendTimestamps(week_cols, Tail(cols))

Keyed(cols) == [i \in 1..Len(cols) |-> [key |-> to_datetime(cols[i]).ord, c |-> cols[i]]]

Unkeyed(ks) == [i \in 1..Len(ks) |-> ks[i].c]

\* sorted(week_cols, key=lambda x: pd.to_datetime(str(x)))
SortWeekCols(week_cols) == Unkeyed(SortedByKey(Keyed(week_cols)))

\* detect_week_cols(df): [raised, cols]; the sort key raises on a label that
\* has the date shape and is no calendar date.
detect_week_cols(df) ==
  LET week_cols == AppendTimestamps(PatternCols(df.cols), df.cols)
  IN IF \E i \in 1..Len(week_cols) : to_datetime(week_cols[i]).raised
       THEN [raised |-> TRUE, cols |-> <<>>]
     ELSE [raised |-> FALSE, cols |-> SortWeekCols(week_cols)]

\* ---------------------------------------------- get_total_row_estimates
Cell(df, r, c) == df.rows[r][ColIndex(df, c)]

IsTotalLabel(x) == IsWord(Lower(Strip(Str(x))), "total")

TotalRows(df, c) == {r \in 1..Len(df.rows) : IsTotalLabel(Cell(df, r, c))}

Min(S) == CHOOSE x \in S : \A y \in S : x <= y
Max(S) == CHOOSE x \in S : \A y \in S : x >= y

\* Series.sum() of the coerced column: NaN cells are skipped.
RECURSIVE SumNumeric(_)
SumNumeric(cells) ==
  IF Len(cells) = 0 THEN 0
  ELSE (IF ToNumeric(Head(cells)).k = "num" THEN Head(cells).v ELSE 0) + SumNumeric(Tail(cells))

Column(df, c) == [r \in 1..Len(df.rows) |-> Cell(df, r, c)]

\* get_total_row_estimates: [warned, rows], one row per week column, in the
\* order of week_cols.  The first "total" row gives the values (coerced, so
\* a non-numeric cell is NaN); without one the columns are summed.
get_total_row_estimates(baseline_df, project_col, week_cols) ==
  IF TotalRows(baseline_df, project_col) # {}
    THEN [warned |-> FALSE,
          rows |-> [i \in 1..Len(week_cols) |->
                      [Week |-> to_datetime(week_cols[i]).ord,
                       Estimated_Hours |-> ToNumeric(Cell(baseline_df, Min(TotalRows(baseline_df, project_col)), week_cols[i]))]]]
  ELSE [warned |-> TRUE,
        rows |-> [i \in 1..Len(week_cols) |->
                    [Week |-> to_datetime(week_cols[i]).ord,
                     Estimated_Hours |-> Num(SumNumeric(Column(baseline_df, week_cols[i])))]]]

\* --------------------------------------- extract_actual_total_from_file
\* Rows whose first cell is missing: df[first_col].isna().
BlankRows(df) == {r \in 1..Len(df.rows) : df.rows[r][1].k = "nan"}

ActualTotalRows(df) == {r \in 1..Len(df.rows) : IsTotalLabel(df.rows[r][1])}

\* Taking the first "total" row where the code takes the last (.iloc[0]).
FirstTotalRow(df) == Min(ActualTotalRows(df))

\* df.loc[mask_total, df.columns[1]].iloc[-1]
LastTotalRow(df) == Max(ActualTotalRows(df))

\* df[df[first_col].isna()].tail(1)
LastBlankRow(df) == Max(BlankRows(df))

\* An extractor that tries the blank-label row before the "total" row.
ExtractBlankFirst(actuals_df) ==
  LET df == actuals_df
      tot == IF ActualTotalRows(df) # {} THEN ToNumeric(df.rows[Max(ActualTotalRows(df))][2]) ELSE NaN
      bl == IF BlankRows(df) # {} THEN ToNumeric(df.rows[Max(BlankRows(df))][2]) ELSE NaN
  IN IF Len(df.cols) < 2
       THEN [raised |-> TRUE, value |-> 0, branch |-> "none", warned |-> FALSE]
     ELSE IF BlankRows(df) # {} /\ notna(bl)
       THEN [raised |-> FALSE, value |-> bl.v, branch |-> "blank", warned |-> FALSE]
     ELSE IF ActualTotalRows(df) # {} /\ notna(tot)
       THEN [raised |-> FALSE, value |-> tot.v, branch |-> "total", warned |-> FALSE]
     ELSE [raised |-> FALSE, value |-> SumNumeric([r \in 1..Len(df.rows) |-> df.rows[r][2]]),
           branch |-> "sum", warned |-> TRUE]

\* extract_actual_total_from_file: [raised, value, branch, warned].  branch
\* names the return statement taken: "total" (line 83), "blank" (line 90),
\* "sum" (line 94).  A table with fewer than two columns raises IndexError.
extract_actual_total_from_file(actuals_df) ==
  LET df == actuals_df
      tot == IF ActualTotalRows(df) # {} THEN ToNumeric(df.rows[LastTotalRow(df)][2]) ELSE NaN
      bl == IF BlankRows(df) # {} THEN ToNumeric(df.rows[LastBlankRow(df)][2]) ELSE NaN
  IN IF Len(df.cols) < 2
       THEN [raised |-> TRUE, value |-> 0, branch |-> "none", warned |-> FALSE]
     ELSE IF ActualTotalRows(df) # {} /\ notna(tot)
       THEN [raised |-> FALSE, value |-> tot.v, branch |-> "total", warned |-> FALSE]
     ELSE IF BlankRows(df) # {} /\ notna(bl)
       THEN [raised |-> FALSE, value |-> bl.v, branch |-> "blank", warned |-> FALSE]
     ELSE [raised |-> FALSE, value |-> SumNumeric([r \in 1..Len(df.rows) |-> df.rows[r][2]]),
           branch |-> "sum", warned |-> TRUE]

\* -------------------------------------------------------- tracker store
\* A tracker frame is a sequence of rows [Week, Actual_Hours]: Week a day
\* number, Actual_Hours a float in tenths.  The CSV file holds each row as
\* text: the date as year-month-day, the float as integer part and decimal.
FormatWeek(n) == DateOf(n)
FormatFloat(v) == <<v \div 10, v % 10>>
ParseFloat(t) == t[1] * 10 + t[2]

\* DataFrame.to_csv(tracker_file, index=False)
to_csv(frame) ==
  [i \in 1..Len(frame) |-> [Week |-> FormatWeek(frame[i].Week), Actual_Hours |-> FormatFloat(frame[i].Actual_Hours)]]

\* pd.read_csv(tracker_file, parse_dates=["Week"])
read_csv(rows) ==
  [i \in 1..Len(rows) |-> [Week |-> Ordinal(rows[i].Week), Actual_Hours |-> ParseFloat(rows[i].Actual_Hours)]]

\* Lines 196-201: the stored tracker, or an empty frame without a file.
LoadTrackerFrame(file) == IF file.exists THEN read_csv(file.rows) ELSE <<>>

\* An upsert that writes only the new row, forgetting the loaded tracker.
ConcatNewRowOnly(frame, new_row) == <<new_row>>

\* pd.concat([actuals_tracker, new_row], ignore_index=True)
Concat(frame, new_row) == frame \o <<new_row>>

\* A drop_duplicates that keeps the first row of each week (keep="first").
DropDuplicatesKeepFirst(frame) ==
  LET keep == {i \in 1..Len(frame) : \A j \in 1..(i - 1) : frame[j].Week # frame[i].Week}
      F[i \in 0..Len(frame)] ==
        IF i = 0 THEN <<>>
        ELSE IF i \in keep THEN Append(F[i - 1], frame[i]) ELSE F[i - 1]
  IN F[Len(frame)]

\* drop_duplicates(subset=["Week"], keep="last")
DropDuplicates(frame) ==
  LET keep == {i \in 1..Len(frame) : \A j \in (i + 1)..Len(frame) : frame[j].Week # frame[i].Week}
      F[i \in 0..Len(frame)] ==
        IF i = 0 THEN <<>>
        ELSE IF i \in keep THEN Append(F[i - 1], frame[i]) ELSE F[i - 1]
  IN F[Len(frame)]

\* An upsert that leaves the rows in insertion order.
SortValuesOmitted(frame) == frame

\* sort_values("Week")
SortValues(frame) ==
  LET keyed == [i \in 1..Len(frame) |-> [key |-> frame[i].Week, c |-> frame[i]]]
  IN Unkeyed(SortedByKey(keyed))

\* Lines 204-207: the frame that line 208 writes.
Upsert(frame, week, value) ==
  SortValues(DropDuplicates(Concat(frame, [Week |-> week, Actual_Hours |-> value])))

\* ------------------------------------------------------ merge for chart
\* pd.merge(estimates, tracker, on="Week", how="left"): for each estimate
\* row, in order, one row per tracker row of that week, or one row with a
\* missing Actual_Hours.
MatchRows(e, tracker) ==
  LET hits == SelectSeq(tracker, LAMBDA t : t.Week = e.Week)
  IN IF Len(hits) = 0
       THEN <<[Week |-> e.Week, Estimated_Hours |-> e.Estimated_Hours, Actual_Hours |-> NaN]>>
     ELSE [i \in 1..Len(hits) |->
             [Week |-> e.Week, Estimated_Hours |-> e.Estimated_Hours, Actual_Hours |-> Num(hits[i].Actual_Hours)]]

RECURSIVE LeftMerge(_, _)
LeftMerge(estimates, tracker) ==
  IF Len(estimates) = 0 THEN <<>>
  ELSE MatchRows(Head(estimates), tracker) \o LeftMerge(Tail(estimates), tracker)

\* DataFrame.fillna(0): every missing cell of every column becomes 0.
FillCell(x) == IF x.k = "nan" THEN Num(0) ELSE x

fillna(frame) ==
  [i \in 1..Len(frame) |->
     [Week |-> frame[i].Week,
      Estimated_Hours |-> FillCell(frame[i].Estimated_Hours),
      Actual_Hours |-> FillCell(frame[i].Actual_Hours)]]

\* pd.merge(estimates, actuals_tracker, on="Week", how="left").fillna(0)
Combine(estimates, tracker) == fillna(LeftMerge(estimates, tracker))

\* ------------------------------------------------------------ the inputs
D1 == <<2024, 1, 1>>
D8 == <<2024, 1, 8>>
D15 == <<2024, 1, 15>>
DBad == <<2024, 13, 45>>

EmptyDf == [cols |-> <<>>, rows |-> <<>>]

ProjectHeader == Txt("Project Full Name")

\* Baseline workbooks an operator can upload.
BGood ==
  [cols |-> <<ProjectHeader, DTxt(D1), DTxt(D8)>>,
   rows |-> << <<Txt("Alpha"), Num(600), Num(700)>>, <<PadTxt("TOTAL"), Num(1000), Num(1200)>> >>]
BNoTotal ==
  [cols |-> <<ProjectHeader, DTxt(D8), DTxt(D1)>>,
   rows |-> << <<Txt("Alpha"), Num(600), Num(700)>>, <<Txt("Beta"), Num(400), Txt("n/a")>> >>]
BNaNTotal ==
  [cols |-> <<ProjectHeader, DTxt(D1), DTxt(D8)>>,
   rows |-> << <<Txt("Total"), Num(1000), Txt("n/a")>> >>]
BNoWeeks ==
  [cols |-> <<ProjectHeader, Txt("Notes")>>,
   rows |-> << <<Txt("Total"), Num(10)>> >>]
BNoRows == [cols |-> <<Txt("Notes"), DTxt(D1)>>, rows |-> <<>>]
BPadDup ==
  [cols |-> <<ProjectHeader, DTxt(D1), PadDTxt(D1)>>,
   rows |-> << <<Txt("Total"), Num(1000), Num(900)>> >>]
BHeaderRow ==
  [cols |-> <<Txt("Unnamed: 0"), Txt("Unnamed: 1"), Txt("Unnamed: 2")>>,
   rows |-> << <<ProjectHeader, DTxt(D8), DTxt(D1)>>, <<Txt("Total"), Num(1200), Num(1000)>> >>]

Baselines == {BGood, BNoTotal, BNaNTotal, BNoWeeks, BNoRows, BPadDup, BHeaderRow}

ActualsHeader == <<ProjectHeader, Txt("Actual Hours Worked")>>

\* Weekly actuals workbooks.
ATotal == [cols |-> ActualsHeader, rows |-> << <<Txt("Alpha"), Num(500)>>, <<Txt("Total"), Num(950)>> >>]
ASum == [cols |-> ActualsHeader, rows |-> << <<Txt("Alpha"), Num(200)>>, <<Txt("Beta"), Num(255)>> >>]

ActualsTables == {ATotal, ASum}

\* What re.search(r"(\d{4}-\d{2}-\d{2})", fname) finds in the file name.
NoToken == [found |-> FALSE, ymd |-> <<0, 0, 0>>]
Token(d) == [found |-> TRUE, ymd |-> d]
FileNames == {NoToken, Token(D1), Token(D8), Token(D15), Token(DBad)}

\* An uploader's value: nothing, an unreadable file, or a workbook.
NoUpload == [given |-> FALSE, readable |-> FALSE, df |-> EmptyDf, name |-> NoToken]
BaselineUploads ==
  {NoUpload, [given |-> TRUE, readable |-> FALSE, df |-> EmptyDf, name |-> NoToken]}
    \cup {[given |-> TRUE, readable |-> TRUE, df |-> b, name |-> NoToken] : b \in Baselines}
ActualsUploads ==
  {NoUpload}
    \cup {[given |-> TRUE, readable |-> FALSE, df |-> EmptyDf, name |-> n] : n \in {Token(D1)}}
    \cup {[given |-> TRUE, readable |-> TRUE, df |-> a, name |-> n] : a \in ActualsTables, n \in FileNames}

NoFile == [exists |-> FALSE, rows |-> <<>>]
NoCache == [exists |-> FALSE, df |-> EmptyDf]

WeekOrds == {Ordinal(D1), Ordinal(D8), Ordinal(D15)}

\* A deployment that has already recorded one week.
StoredTracker == [exists |-> TRUE, rows |-> to_csv(<<[Week |-> Ordinal(D8), Actual_Hours |-> 455]>>)]

\* ------------------------------------------------------------- the state
VARIABLES
  cached_baseline,    \* cached_baseline.xlsx: [exists, df]
  tracker_file,       \* actuals_tracker.csv: [exists, rows]
  baseline_file,      \* the baseline uploader's value in this run
  actuals_file,       \* the actuals uploader's value in this run
  pc,                 \* the script's position in the current run
  baseline_df, actuals_df, project_col, week_cols, estimates,
  actual_value, actual_week_date, actuals_tracker, combined, combined_prev,
  outcome,            \* how the run ended
  pre_cached,         \* cached_baseline.xlsx when the run began
  pre_tracker,        \* actuals_tracker.csv when the run began
  week_cols_checked,  \* line 177 was evaluated in this run
  extractions,        \* the extractor calls of this run, in order
  tracker_writes,     \* number of to_csv calls in this run
  expected,           \* week -> value last upserted (or stored initially), -1 = none
  last_written,       \* the frame most recently written by line 208
  norm_df, norm_pc, norm_project, norm_weeks,
  act_df, act_pc, act_result,
  sess, race_init, race_events

persisted == <<cached_baseline, tracker_file>>
uploads == <<baseline_file, actuals_file>>
locals ==
  <<baseline_df, actuals_df, project_col, week_cols, estimates, actual_value,
    actual_week_date, actuals_tracker, combined, combined_prev>>
history == <<pre_cached, pre_tracker, week_cols_checked, extractions, tracker_writes>>
ghosts == <<expected, last_written>>
runVars == <<persisted, uploads, pc, locals, outcome, history, ghosts>>
normVars == <<norm_df, norm_pc, norm_project, norm_weeks>>
actVars == <<act_df, act_pc, act_result>>
raceVars == <<sess, race_init, race_events>>
vars == <<runVars, normVars, actVars, raceVars>>

NoneLast == [exists |-> FALSE, rows |-> <<>>]

NormIdle ==
  /\ norm_df = EmptyDf /\ norm_pc = "off"
  /\ norm_project = [raised |-> FALSE, col |-> NaN, df |-> EmptyDf]
  /\ norm_weeks = [raised |-> FALSE, cols |-> <<>>]
ActIdle ==
  /\ act_df = EmptyDf /\ act_pc = "off"
  /\ act_result = [raised |-> FALSE, value |-> 0, branch |-> "none", warned |-> FALSE]
RaceIdle ==
  /\ sess = <<>> /\ race_init = NoFile /\ race_events = <<>>

LocalsReset ==
  /\ baseline_df' = EmptyDf /\ actuals_df' = EmptyDf
  /\ project_col' = NaN /\ week_cols' = <<>> /\ estimates' = <<>>
  /\ actual_value' = 0 /\ actual_week_date' = 0 /\ actuals_tracker' = <<>>
  /\ combined' = <<>> /\ combined_prev' = <<>>

RunIdle ==
  /\ baseline_file = NoUpload /\ actuals_file = NoUpload /\ pc = "idle"
  /\ baseline_df = EmptyDf /\ actuals_df = EmptyDf
  /\ project_col = NaN /\ week_cols = <<>> /\ estimates = <<>>
  /\ actual_value = 0 /\ actual_week_date = 0 /\ actuals_tracker = <<>>
  /\ combined = <<>> /\ combined_prev = <<>>
  /\ outcome = "none"
  /\ pre_cached = cached_baseline /\ pre_tracker = tracker_file
  /\ week_cols_checked = FALSE /\ extractions = <<>> /\ tracker_writes = 0
  /\ last_written = NoneLast

ExpectedOf(file) ==
  [w \in WeekOrds |->
     IF \E i \in 1..Len(file.rows) : Ordinal(file.rows[i].Week) = w
       THEN ParseFloat(file.rows[CHOOSE i \in 1..Len(file.rows) : Ordinal(file.rows[i].Week) = w].Actual_Hours)
     ELSE -1]

\* A fresh deployment, or one that has a cached baseline and one tracked week.
Init ==
  /\ \/ cached_baseline = NoCache /\ tracker_file = NoFile
     \/ cached_baseline = [exists |-> TRUE, df |-> BGood] /\ tracker_file = StoredTracker
  /\ expected = ExpectedOf(tracker_file)
  /\ RunIdle /\ NormIdle /\ ActIdle /\ RaceIdle

\* ------------------------------------------------------- one script run
Extraction(fn, path, checked, cols) ==
  [fn |-> fn, path |-> path, checked |-> checked, nweeks |-> Len(cols)]

Stop(why) == pc' = "stopped" /\ outcome' = why

\* A rerun of the script: the operator's uploads are fixed for the run.
BeginRun ==
  /\ pc = "idle"
  /\ \E b \in BaselineUploads, a \in ActualsUploads :
       baseline_file' = b /\ actuals_file' = a
  /\ pc' = "startup"
  /\ outcome' = "running"
  /\ pre_cached' = cached_baseline /\ pre_tracker' = tracker_file
  /\ week_cols_checked' = FALSE /\ extractions' = <<>> /\ tracker_writes' = 0
  /\ UNCHANGED <<persisted, locals, ghosts, normVars, actVars, raceVars>>

\* Lines 110-116 inside the try block: [extractions, combined_prev]; an
\* exception from the detectors ends the block (line 138).
PrevView(prev_base, file) ==
  LET p == detect_project_col(prev_base)
      w == detect_week_cols(p.df)
      est == get_total_row_estimates(p.df, p.col, w.cols)
  IN IF p.raised \/ w.raised
       THEN [extractions |-> <<>>, combined_prev |-> <<>>]
     ELSE [extractions |-> <<Extraction("estimate", "startup", FALSE, w.cols)>>,
           combined_prev |-> Combine(est.rows, read_csv(file.rows))]

\* Lines 108-139: the last saved view.
LastSavedView ==
  /\ pc = "startup"
  /\ IF cached_baseline.exists /\ tracker_file.exists
       THEN /\ extractions' = extractions \o PrevView(cached_baseline.df, tracker_file).extractions
            /\ combined_prev' = PrevView(cached_baseline.df, tracker_file).combined_prev
     ELSE UNCHANGED <<extractions, combined_prev>>
  /\ pc' = "baseline"
  /\ UNCHANGED <<persisted, uploads, baseline_df, actuals_df, project_col, week_cols,
                 estimates, actual_value, actual_week_date, actuals_tracker, combined,
                 outcome, pre_cached, pre_tracker, week_cols_checked, tracker_writes,
                 ghosts, normVars, actVars, raceVars>>

\* Lines 149-161: the baseline is read and cached, or taken from the cache.
LoadBaseline ==
  /\ pc = "baseline"
  /\ IF baseline_file.given
       THEN IF baseline_file.readable
              THEN /\ baseline_df' = baseline_file.df
                   /\ cached_baseline' = [exists |-> TRUE, df |-> baseline_file.df]
                   /\ pc' = "actuals" /\ UNCHANGED outcome
            ELSE /\ Stop("baseline_unreadable")
                 /\ UNCHANGED <<baseline_df, cached_baseline>>
     ELSE IF cached_baseline.exists
       THEN /\ baseline_df' = cached_baseline.df
            /\ pc' = "actuals" /\ UNCHANGED <<outcome, cached_baseline>>
     ELSE /\ Stop("no_baseline")
          /\ UNCHANGED <<baseline_df, cached_baseline>>
  /\ UNCHANGED <<tracker_file, uploads, actuals_df, project_col, week_cols, estimates,
                 actual_value, actual_week_date, actuals_tracker, combined, combined_prev,
                 history, ghosts, normVars, actVars, raceVars>>

\* Lines 164-171 and 229-230: the actuals workbook is read.
ReadActuals ==
  /\ pc = "actuals"
  /\ IF ~actuals_file.given
       THEN /\ pc' = "done" /\ outcome' = "no_actuals" /\ UNCHANGED actuals_df
     ELSE IF ~actuals_file.readable
       THEN Stop("actuals_unreadable") /\ UNCHANGED actuals_df
     ELSE /\ actuals_df' = actuals_file.df
          /\ pc' = "detect" /\ UNCHANGED outcome
  /\ UNCHANGED <<persisted, uploads, baseline_df, project_col, week_cols, estimates,
                 actual_value, actual_week_date, actuals_tracker, combined, combined_prev,
                 history, ghosts, normVars, actVars, raceVars>>

\* Lines 174-179: the detectors, then the week-column check.  An exception
\* of a detector is not caught and ends the run.
DetectColumns ==
  /\ pc = "detect"
  /\ LET p == detect_project_col(baseline_df)
         w == detect_week_cols(p.df)
     IN IF p.raised
          THEN /\ Stop("exception")
               /\ UNCHANGED <<baseline_df, project_col, week_cols, week_cols_checked>>
        ELSE IF w.raised
          THEN /\ Stop("exception")
               /\ baseline_df' = p.df /\ project_col' = p.col
               /\ UNCHANGED <<week_cols, week_cols_checked>>
        ELSE /\ baseline_df' = p.df /\ project_col' = p.col /\ week_cols' = w.cols
             /\ week_cols_checked' = TRUE
             /\ IF w.cols = <<>>
                  THEN Stop("no_week_cols")
                ELSE pc' = "extract" /\ UNCHANGED outcome
  /\ UNCHANGED <<persisted, uploads, actuals_df, estimates, actual_value, actual_week_date,
                 actuals_tracker, combined, combined_prev, pre_cached, pre_tracker,
                 extractions, tracker_writes, ghosts, normVars, actVars, raceVars>>

\* Lines 182-185: the estimate series and this week's actual total.
ExtractSeries ==
  /\ pc = "extract"
  /\ LET est == get_total_row_estimates(baseline_df, project_col, week_cols)
         act == extract_actual_total_from_file(actuals_df)
     IN /\ estimates' = est.rows
        /\ extractions' = extractions
              \o <<Extraction("estimate", "upload", week_cols_checked, week_cols),
                   Extraction("actual", "upload", week_cols_checked, week_cols)>>
        /\ IF act.raised
             THEN Stop("exception") /\ UNCHANGED actual_value
           ELSE actual_value' = act.value /\ pc' = "filename" /\ UNCHANGED outcome
  /\ UNCHANGED <<persisted, uploads, baseline_df, actuals_df, project_col, week_cols,
                 actual_week_date, actuals_tracker, combined, combined_prev, pre_cached,
                 pre_tracker, week_cols_checked, tracker_writes, ghosts,
                 normVars, actVars, raceVars>>

\* Lines 188-193: the week of the upload, from its file name.  pd.to_datetime
\* raises on a token that is no calendar date.
ParseFilename ==
  /\ pc = "filename"
  /\ LET m == actuals_file.name
     IN IF ~m.found
          THEN Stop("no_date_token") /\ UNCHANGED actual_week_date
        ELSE IF to_datetime(DTxt(m.ymd)).raised
          THEN Stop("exception") /\ UNCHANGED actual_week_date
        ELSE /\ actual_week_date' = to_datetime(DTxt(m.ymd)).ord
             /\ pc' = "tracker" /\ UNCHANGED outcome
  /\ UNCHANGED <<persisted, uploads, baseline_df, actuals_df, project_col, week_cols,
                 estimates, actual_value, actuals_tracker, combined, combined_prev,
                 history, ghosts, normVars, actVars, raceVars>>

\* Lines 196-201: load or create the tracker.
LoadTracker ==
  /\ pc = "tracker"
  /\ actuals_tracker' = LoadTrackerFrame(tracker_file)
  /\ pc' = "upsert"
  /\ UNCHANGED <<persisted, uploads, baseline_df, actuals_df, project_col, week_cols,
                 estimates, actual_value, actual_week_date, combined, combined_prev,
                 outcome, history, ghosts, normVars, actVars, raceVars>>

\* Lines 204-208: append/update this week's actual and rewrite the file.
UpsertTracker ==
  /\ pc = "upsert"
  /\ actuals_tracker' = Upsert(actuals_tracker, actual_week_date, actual_value)
  /\ tracker_file' = [exists |-> TRUE, rows |-> to_csv(actuals_tracker')]
  /\ tracker_writes' = tracker_writes + 1
  /\ expected' = [expected EXCEPT ![actual_week_date] = actual_value]
  /\ last_written' = [exists |-> TRUE, rows |-> actuals_tracker']
  /\ pc' = "merge"
  /\ UNCHANGED <<cached_baseline, uploads, baseline_df, actuals_df, project_col, week_cols,
                 estimates, actual_value, actual_week_date, combined, combined_prev,
                 outcome, pre_cached, pre_tracker, week_cols_checked, extractions,
                 normVars, actVars, raceVars>>

\* Line 212: merge for the chart; the run then completes (lines 214-227).
MergeForChart ==
  /\ pc = "merge"
  /\ combined' = Combine(estimates, actuals_tracker)
  /\ pc' = "done" /\ outcome' = "ok"
  /\ UNCHANGED <<persisted, uploads, baseline_df, actuals_df, project_col, week_cols,
                 estimates, actual_value, actual_week_date, actuals_tracker, combined_prev,
                 history, ghosts, normVars, actVars, raceVars>>

\* The run is over; the session waits for the next interaction.
EndRun ==
  /\ pc \in {"done", "stopped"}
  /\ pc' = "idle" /\ outcome' = "none"
  /\ baseline_file' = NoUpload /\ actuals_file' = NoUpload
  /\ LocalsReset
  /\ pre_cached' = cached_baseline /\ pre_tracker' = tracker_file
  /\ week_cols_checked' = FALSE /\ extractions' = <<>> /\ tracker_writes' = 0
  /\ UNCHANGED <<persisted, ghosts, normVars, actVars, raceVars>>

Next ==
  \/ BeginRun
  \/ LastSavedView
  \/ LoadBaseline
  \/ ReadActuals
  \/ DetectColumns
  \/ ExtractSeries
  \/ ParseFilename
  \/ LoadTracker
  \/ UpsertTracker
  \/ MergeForChart
  \/ EndRun

Spec == Init /\ [][Next]_vars

\* ------------------------------------------------- properties of the run
TrackerFrame == LoadTrackerFrame(tracker_file)

RowsOfWeek(frame, w) == {i \in 1..Len(frame) : frame[i].Week = w}

HasEntry(frame, w, v) == \E i \in 1..Len(frame) : frame[i].Week = w /\ frame[i].Actual_Hours = v

\* C1: the stored tracker holds exactly one entry for every week stored
\* initially or ever upserted, with the value of the most recent upsert of
\* that week (the initial value if none), and no entry for any other week;
\* upserting a pair the file already holds leaves the file as it was.
C1_LastWriteWins ==
  /\ \A w \in WeekOrds :
       Cardinality(RowsOfWeek(TrackerFrame, w)) = (IF expected[w] = -1 THEN 0 ELSE 1)
  /\ \A i \in 1..Len(TrackerFrame) :
       /\ TrackerFrame[i].Week \in WeekOrds
       /\ TrackerFrame[i].Actual_Hours = expected[TrackerFrame[i].Week]
  /\ (pc = "merge" /\ HasEntry(LoadTrackerFrame(pre_tracker), actual_week_date, actual_value))
       => tracker_file = pre_tracker

\* An upsert has just replaced the stored value of a week by another value,
\* in a tracker that holds a second week as well.
C1_Witness ==
  /\ pc = "merge"
  /\ \E i \in 1..Len(LoadTrackerFrame(pre_tracker)) :
       /\ LoadTrackerFrame(pre_tracker)[i].Week = actual_week_date
       /\ LoadTrackerFrame(pre_tracker)[i].Actual_Hours # actual_value
  /\ Len(TrackerFrame) >= 2
  /\ HasEntry(TrackerFrame, actual_week_date, actual_value)

Fatal == {"baseline_unreadable", "actuals_unreadable", "no_week_cols", "no_date_token"}

\* C2: a run that ends in a fatal condition leaves the cached baseline and
\* the tracker file as they were when the run began, and writes no tracker.
C2_FatalLeavesStateUntouched ==
  (pc = "stopped" /\ outcome \in Fatal)
    => /\ cached_baseline = pre_cached
       /\ tracker_file = pre_tracker
       /\ tracker_writes = 0

\* C3: whenever an extractor is reached, on the upload path or on the
\* startup path, the week-column list it works with is non-empty.
C3_NoExtractionWithoutWeekCols ==
  \A i \in 1..Len(extractions) : extractions[i].nweeks > 0

StrictlyAscending(frame) == \A i \in 1..(Len(frame) - 1) : frame[i].Week < frame[i + 1].Week

\* C4: the tracker read back from the file is the frame the last upsert
\* wrote, also when the next run loads it, and its weeks strictly increase.
C4_RoundTripSorted ==
  /\ tracker_file.exists => StrictlyAscending(TrackerFrame)
  /\ last_written.exists => TrackerFrame = last_written.rows
  /\ (pc = "upsert" /\ last_written.exists) => actuals_tracker = last_written.rows

\* A later run has loaded a tracker of at least two weeks that an earlier
\* upsert wrote.
C4_Witness ==
  /\ pc = "upsert"
  /\ last_written.exists
  /\ Len(actuals_tracker) >= 2
  /\ actuals_tracker = last_written.rows

ActualFor(tracker, w) ==
  IF RowsOfWeek(tracker, w) = {} THEN Num(0)
  ELSE Num(tracker[CHOOSE i \in RowsOfWeek(tracker, w) : TRUE].Actual_Hours)

IsLeftJoin(c, e, t) ==
  /\ Len(c) = Len(e)
  /\ \A i \in 1..Len(c) :
       /\ c[i].Week = e[i].Week
       /\ c[i].Estimated_Hours = e[i].Estimated_Hours
       /\ c[i].Actual_Hours = ActualFor(t, e[i].Week)
  /\ \A i, j \in 1..Len(c) : i # j => c[i].Week # c[j].Week

\* C5: the combined series has exactly one row per estimate week, in
\* estimate order, carrying that week's estimate and the tracker's value for
\* the week, or 0 when the tracker has none.
C5_CombinedIsLeftJoin ==
  (pc = "done" /\ outcome = "ok") => IsLeftJoin(combined, estimates, actuals_tracker)

\* ------------------------------------- the actual extractor on any table
SeqsUpTo(S, n) == UNION {[1..k -> S] : k \in 0..n}

ActualLabels == {Txt("Total"), PadTxt("TOTAL"), Txt("Alpha"), NaN}
ActualCells == {Num(950), Num(400), Txt("n/a"), NaN}
ActualRows == {<<l, v>> : l \in ActualLabels, v \in ActualCells}

RunOff ==
  /\ cached_baseline = NoCache /\ tracker_file = NoFile
  /\ expected = ExpectedOf(NoFile)
  /\ RunIdle

\* Every two-column actuals table of at most MaxRows rows.
ActInit ==
  /\ act_df \in {[cols |-> ActualsHeader, rows |-> r] : r \in SeqsUpTo(ActualRows, MaxRows)}
  /\ act_pc = "in"
  /\ act_result = [raised |-> FALSE, value |-> 0, branch |-> "none", warned |-> FALSE]
  /\ RunOff /\ NormIdle /\ RaceIdle

\* Line 185: actual_value = extract_actual_total_from_file(actuals_df)
ExtractActual ==
  /\ act_pc = "in"
  /\ act_result' = extract_actual_total_from_file(act_df)
  /\ act_pc' = "out"
  /\ UNCHANGED <<act_df, runVars, normVars, raceVars>>

ActNext == ExtractActual

SpecActual == ActInit /\ [][ActNext]_vars

IsNum(x) == x.k = "num"

\* The last row of a set of rows, stated on its own.
IsLastOf(r, S) == r \in S /\ \A q \in S : q <= r

\* C6: when the table has a "total" row and a blank-label row whose numeric
\* values differ (the last "total" row being the one that counts), the
\* extractor returns the value of the last "total" row.
C6_TotalRowWins ==
  act_pc = "out" =>
    \A t \in ActualTotalRows(act_df), b \in BlankRows(act_df) :
      (/\ IsLastOf(t, ActualTotalRows(act_df))
       /\ IsNum(act_df.rows[t][2]) /\ IsNum(act_df.rows[b][2])
       /\ act_df.rows[t][2] # act_df.rows[b][2])
        => /\ ~act_result.raised
           /\ act_result.value = act_df.rows[t][2].v
           /\ act_result.branch = "total"

\* Two "total" rows with different numbers and a blank-label row with a
\* third: the extractor has returned the last "total" row's value.
C6_Witness ==
  /\ act_pc = "out"
  /\ Cardinality(ActualTotalRows(act_df)) = 2
  /\ BlankRows(act_df) # {}
  /\ \A r \in 1..Len(act_df.rows) : IsNum(act_df.rows[r][2])
  /\ \E t \in ActualTotalRows(act_df), u \in ActualTotalRows(act_df), b \in BlankRows(act_df) :
       /\ t < u
       /\ act_df.rows[t][2] # act_df.rows[u][2]
       /\ act_df.rows[b][2] # act_df.rows[u][2]
       /\ act_result.value = act_df.rows[u][2].v

\* C7 as claimed: the blank-label heuristic is used only if no row is
\* labelled "total", and the column sum with its warning only if no row is
\* labelled "total" and no row has a blank label.
C7_FallThroughOnlyWithoutMatch ==
  act_pc = "out" =>
    /\ act_result.branch = "blank" => ActualTotalRows(act_df) = {}
    /\ (act_result.branch = "sum" \/ act_result.warned)
         => (ActualTotalRows(act_df) = {} /\ BlankRows(act_df) = {})

NoNumericTotal(df) ==
  \A t \in ActualTotalRows(df) : IsLastOf(t, ActualTotalRows(df)) => ~IsNum(df.rows[t][2])

NoNumericBlank(df) ==
  \A b \in BlankRows(df) : IsLastOf(b, BlankRows(df)) => ~IsNum(df.rows[b][2])

\* C7 amended: the blank-label heuristic is used only if no row is labelled
\* "total" or the last such row's value is not numeric; the column sum and
\* its warning are used only if, besides, no row has a blank label or the
\* last such row's value is not numeric.  The warning goes with the sum.
C7_FallThroughOnMissingOrInvalid ==
  act_pc = "out" =>
    /\ act_result.branch = "blank" => (NoNumericTotal(act_df) /\ ~NoNumericBlank(act_df))
    /\ act_result.branch = "sum" => (NoNumericTotal(act_df) /\ NoNumericBlank(act_df))
    /\ act_result.branch = "total" => ~NoNumericTotal(act_df)
    /\ act_result.warned <=> act_result.branch = "sum"

\* A "total" row was found, its value is not numeric, and the extractor
\* went on to the blank-label row.
C7_Witness ==
  /\ act_pc = "out"
  /\ ActualTotalRows(act_df) # {}
  /\ act_result.branch = "blank"

\* ------------------------------------------- the normalizer on any table
NormLabels ==
  {ProjectHeader, PadTxt("PROJECT FULL NAME"), Txt("Notes"), DTxt(D1), PadDTxt(D1),
   DTxt(D8), DTxt(DBad), Ts(Ordinal(D1)), Ts(Ordinal(D15))}
NormCells == {ProjectHeader, Txt("Alpha"), DTxt(D8)}

Injective(f) == \A i, j \in DOMAIN f : i # j => f[i] # f[j]

\* One to MaxCols distinctly labelled columns.
NormColumns == {q \in SeqsUpTo(NormLabels, MaxCols) : Injective(q) /\ Len(q) > 0}

\* No data row, or one.
NormRowsFor(c) == {<<>>} \cup {<<r>> : r \in [1..Len(c) -> NormCells]}

NormInit ==
  /\ \E c \in NormColumns : \E r \in NormRowsFor(c) : norm_df = [cols |-> c, rows |-> r]
  /\ norm_pc = "in"
  /\ norm_project = [raised |-> FALSE, col |-> NaN, df |-> EmptyDf]
  /\ norm_weeks = [raised |-> FALSE, cols |-> <<>>]
  /\ RunOff /\ ActIdle /\ RaceIdle

\* Line 174: project_col = detect_project_col(baseline_df)
DetectProjectCol ==
  /\ norm_pc = "in"
  /\ norm_project' = detect_project_col(norm_df)
  /\ norm_pc' = "project"
  /\ UNCHANGED <<norm_df, norm_weeks, runVars, actVars, raceVars>>

\* Line 175: week_cols = detect_week_cols(baseline_df), on the table as
\* detect_project_col left it.
DetectWeekCols ==
  /\ norm_pc = "project"
  /\ norm_weeks' = detect_week_cols(norm_project.df)
  /\ norm_pc' = "weeks"
  /\ UNCHANGED <<norm_df, norm_project, runVars, actVars, raceVars>>

NormNext == DetectProjectCol \/ DetectWeekCols

SpecNorm == NormInit /\ [][NormNext]_vars

\* A label qualifies when its stripped text has the date shape or it is a
\* Timestamp.
Qualifies(c) == (c.k = "dtxt") \/ (c.k = "ts")

\* C8: the list detect_week_cols returns holds exactly the qualifying
\* columns, each one's date strictly later than the one before it.
C8_StrictlyAscendingWeeks ==
  (norm_pc = "weeks" /\ ~norm_weeks.raised) =>
    /\ Range(norm_weeks.cols) = {c \in Range(norm_project.df.cols) : Qualifies(c)}
    /\ \A i \in 1..(Len(norm_weeks.cols) - 1) :
         to_datetime(norm_weeks.cols[i]).ord < to_datetime(norm_weeks.cols[i + 1]).ord

\* C9: on every table detect_project_col returns a column and
\* detect_week_cols returns a list; neither raises.
C9_NormalizerNeverRaises ==
  /\ norm_pc \in {"project", "weeks"} => ~norm_project.raised
  /\ norm_pc = "weeks" => ~norm_weeks.raised

\* ------------------------------------------ two sessions on one tracker
Sessions == {1, 2}
UploadValues == {950, 455}

\* Each session has parsed its upload and is about to run lines 196-208.
RaceInit ==
  /\ tracker_file \in {NoFile, StoredTracker}
  /\ race_init = tracker_file
  /\ sess \in [Sessions -> {[pc |-> "tracker", week |-> w, value |-> v, frame |-> <<>>] :
                              w \in WeekOrds, v \in UploadValues}]
  /\ race_events = <<>>
  /\ cached_baseline = [exists |-> TRUE, df |-> BGood]
  /\ expected = ExpectedOf(tracker_file)
  /\ RunIdle /\ NormIdle /\ ActIdle

\* Lines 196-201 in session s.
SessLoad(s) ==
  /\ sess[s].pc = "tracker"
  /\ sess' = [sess EXCEPT ![s].frame = LoadTrackerFrame(tracker_file), ![s].pc = "upsert"]
  /\ race_events' = Append(race_events, <<s, "load">>)
  /\ UNCHANGED <<tracker_file, race_init>>

\* Lines 204-208 in session s.
SessWrite(s) ==
  /\ sess[s].pc = "upsert"
  /\ sess' = [sess EXCEPT ![s].frame = Upsert(sess[s].frame, sess[s].week, sess[s].value),
                          ![s].pc = "done"]
  /\ tracker_file' = [exists |-> TRUE, rows |-> to_csv(sess'[s].frame)]
  /\ race_events' = Append(race_events, <<s, "write">>)
  /\ UNCHANGED race_init

RaceRest ==
  UNCHANGED <<cached_baseline, uploads, pc, locals, outcome, history, ghosts, normVars, actVars>>

RaceLoad == \E s \in Sessions : SessLoad(s) /\ RaceRest
RaceWrite == \E s \in Sessions : SessWrite(s) /\ RaceRest

RaceNext == RaceLoad \/ RaceWrite

SpecRace == RaceInit /\ [][RaceNext]_vars

Before(e, f) ==
  \E i, j \in 1..Len(race_events) : i < j /\ race_events[i] = e /\ race_events[j] = f

AllDone == \A s \in Sessions : sess[s].pc = "done"

\* Session b loaded the file before session a wrote it, and wrote after a.
Raced(a, b) == Before(<<b, "load">>, <<a, "write">>) /\ Before(<<a, "write">>, <<b, "write">>)

\* Session a finished its upsert before session b loaded the file.
OneAfterTheOther(a, b) == Before(<<a, "write">>, <<b, "load">>)

\* C10: two sessions upsert different weeks.  When they run one after the
\* other the stored tracker holds both entries; when the second writer had
\* loaded the file before the first wrote, the stored tracker holds the
\* second writer's entry and not the first writer's (unless the file held
\* that very entry to begin with).
C10_LastWriterWins ==
  AllDone =>
    \A a, b \in Sessions :
      (a # b /\ sess[a].week # sess[b].week) =>
        /\ OneAfterTheOther(a, b) =>
             /\ HasEntry(TrackerFrame, sess[a].week, sess[a].value)
             /\ HasEntry(TrackerFrame, sess[b].week, sess[b].value)
        /\ Raced(a, b) =>
             /\ HasEntry(TrackerFrame, sess[b].week, sess[b].value)
             /\ HasEntry(TrackerFrame, sess[a].week, sess[a].value)
                  => HasEntry(LoadTrackerFrame(race_init), sess[a].week, sess[a].value)

\* Both sessions are done, they raced, and the first writer's week is not in
\* the stored tracker at all.
C10_Witness ==
  /\ AllDone
  /\ \E a, b \in Sessions :
       /\ a # b /\ sess[a].week # sess[b].week
       /\ Raced(a, b)
       /\ RowsOfWeek(TrackerFrame, sess[a].week) = {}
       /\ HasEntry(TrackerFrame, sess[b].week, sess[b].value)

====
